---------------------------- MODULE Spec2Model ----------------------------
(***************************************************************************)
(* Ship-hull biofouling dashboard.                                         *)
(*                                                                         *)
(* Two specifications:                                                     *)
(*   Spec         one run of the Streamlit script app.py per user          *)
(*                interaction: helper import, model load, input assembly,  *)
(*                prediction, safety/maintenance text, physics metrics and *)
(*                the two sweep charts, with the try/except structure of   *)
(*                the script.                                              *)
(*   SpecPhysics  the pure helpers of propulsion_physics.py,               *)
(*                safety_rules.py and maintenance_schedule.py, and the     *)
(*                sweep construction of app.py, applied to inputs drawn    *)
(*                from bounded sets.                                       *)
(***************************************************************************)
EXTENDS Integers, Sequences, FiniteSets, TLC

VARIABLES
    pc,          \* app.py: the block the script is about to run
    exports,     \* names defined by the propulsion_physics module on the import path
    cache,       \* st.cache_resource entry of load_model: <<>> or <<object>>
    model,       \* app.py:42 module-level name `model`: <<>> (unbound) or <<object>>
    input_data,  \* app.py:77 column names of the one-row DataFrame
    pred_class,  \* app.py:99/113 `pred_class`: <<>> (never assigned) or <<label>>
    screen,      \* the st.* calls made so far in this run, in order
    caught,      \* history: the except handlers entered in this run, in order
    call,        \* SpecPhysics: the helper applied last ("none" before any)
    args,        \* SpecPhysics: the inputs drawn for this evaluation
    result       \* SpecPhysics: what the helper returned

appVars == <<pc, exports, cache, model, input_data, pred_class, screen, caught>>
physVars == <<call, args, result>>
vars == <<pc, exports, cache, model, input_data, pred_class, screen, caught,
          call, args, result>>

(***************************************************************************)
(* Numbers.  The helpers compute on Python floats; the model computes on   *)
(* exact non-negative rationals n/d (rounding is not modelled).  A         *)
(* numerator or denominator is a natural number of any size, written as a  *)
(* little-endian sequence of base-10000 digits without leading zeros.      *)
(* The unquoted description lines inside the function bodies of            *)
(* propulsion_physics.py (lines 3-4, 9-10, 16, 23-25) are read as          *)
(* docstrings.                                                             *)
(***************************************************************************)

RECURSIVE Big(_)
Big(k) == IF k < 10000 THEN <<k>> ELSE <<k % 10000>> \o Big(k \div 10000)

RECURSIVE Trim(_)
Trim(x) ==
    IF Len(x) > 1 /\ x[Len(x)] = 0 THEN Trim(SubSeq(x, 1, Len(x) - 1)) ELSE x

Digit0(x) == IF x = <<>> THEN 0 ELSE Head(x)
Rest(x) == IF x = <<>> THEN <<>> ELSE Tail(x)

RECURSIVE AddCarry(_, _, _)
AddCarry(x, y, c) ==
    IF x = <<>> /\ y = <<>>
    THEN (IF c = 0 THEN <<>> ELSE <<c>>)
    ELSE LET t == Digit0(x) + Digit0(y) + c
         IN <<t % 10000>> \o AddCarry(Rest(x), Rest(y), t \div 10000)

BigAdd(x, y) == Trim(AddCarry(x, y, 0))

RECURSIVE SubBorrow(_, _, _)
\* x - y - b, for x >= y + b
SubBorrow(x, y, b) ==
    IF x = <<>> THEN <<>>
    ELSE LET t == Head(x) - Digit0(y) - b
         IN IF t < 0 THEN <<t + 10000>> \o SubBorrow(Tail(x), Rest(y), 1)
                     ELSE <<t>> \o SubBorrow(Tail(x), Rest(y), 0)

BigSub(x, y) == Trim(SubBorrow(x, y, 0))

RECURSIVE MulDigit(_, _, _)
MulDigit(x, k, c) ==
    IF x = <<>>
    THEN (IF c = 0 THEN <<>> ELSE <<c>>)
    ELSE LET t == Head(x) * k + c
         IN <<t % 10000>> \o MulDigit(Tail(x), k, t \div 10000)

RECURSIVE BigMul(_, _)
BigMul(x, y) ==
    IF y = <<>> THEN <<0>>
    ELSE BigAdd(MulDigit(x, Head(y), 0), <<0>> \o BigMul(x, Tail(y)))

RECURSIVE LessFrom(_, _, _)
LessFrom(x, y, i) ==
    IF i = 0 THEN FALSE
    ELSE IF x[i] # y[i] THEN x[i] < y[i] ELSE LessFrom(x, y, i - 1)

BigLess(x, y) ==
    IF Len(x) # Len(y) THEN Len(x) < Len(y) ELSE LessFrom(x, y, Len(x))

\* the rational a/b of two machine integers, and an integer literal
QFrac(a, b) == [n |-> Big(a), d |-> Big(b)]
QInt(a) == QFrac(a, 1)

QLess(x, y) == BigLess(BigMul(x.n, y.d), BigMul(y.n, x.d))
QLeq(x, y) == ~QLess(y, x)
QEq(x, y) == BigMul(x.n, y.d) = BigMul(y.n, x.d)

\* Python's +, - (for x >= y), *, / and the builtins min and max
QAdd(x, y) ==
    IF x.d = y.d THEN [n |-> BigAdd(x.n, y.n), d |-> x.d]
    ELSE [n |-> BigAdd(BigMul(x.n, y.d), BigMul(y.n, x.d)), d |-> BigMul(x.d, y.d)]
QSub(x, y) ==
    IF x.d = y.d THEN [n |-> BigSub(x.n, y.n), d |-> x.d]
    ELSE [n |-> BigSub(BigMul(x.n, y.d), BigMul(y.n, x.d)), d |-> BigMul(x.d, y.d)]
QMul(x, y) == [n |-> BigMul(x.n, y.n), d |-> BigMul(x.d, y.d)]
QDiv(x, y) == [n |-> BigMul(x.n, y.d), d |-> BigMul(x.d, y.n)]
QMin(x, y) == IF QLess(y, x) THEN y ELSE x
QMax(x, y) == IF QLess(x, y) THEN y ELSE x

(***************************************************************************)
(* app.py, lines 10-26: the helper import.                                 *)
(***************************************************************************)

\* app.py:11-17: the names imported from propulsion_physics
ImportedNames ==
    {"fuel_curve", "resistance_increase", "power_required",
     "speed_loss_due_to_fouling", "fuel_consumption"}

\* propulsion_physics.py: the names the module defines (its six def statements)
PhysicsDefs ==
    {"resistance_increase", "power_required", "speed_loss_due_to_fouling",
     "fuel_consumption_lph", "fuel_consumption_tph", "fuel_curve"}

\* `from propulsion_physics import (...)` raises ImportError unless every
\* imported name is defined by the module found on the path.
ImportRaises(defined) == ~(ImportedNames \subseteq defined)

\* The propulsion_physics module beside app.py: the repository's own file, or
\* one kept in step with the script's imports (app.py:216-219 tells the
\* deployer to keep the helper signatures and the calls in step).  Only the
\* second lets the script run past line 26.
Deployments == {PhysicsDefs, PhysicsDefs \cup ImportedNames}

(***************************************************************************)
(* Statements of a try block.  A block is a sequence of statements, each a *)
(* computation (<<"call", f>>) or a display (<<"show", what>>).  A fault   *)
(* index f says which statement raises: 0 for none, k for statement k.     *)
(* Python runs the statements before the raising one and then the handler. *)
(***************************************************************************)

Faults(stmts) == 0..Len(stmts)

\* the statements that have completed when statement f raises (all, if f = 0)
Completed(stmts, f) == IF f = 0 THEN stmts ELSE SubSeq(stmts, 1, f - 1)

RECURSIVE Shows(_)
\* the st.* calls among a sequence of statements, in order
Shows(stmts) ==
    IF stmts = <<>> THEN <<>>
    ELSE IF Head(stmts)[1] = "show" THEN <<Head(stmts)[2]>> \o Shows(Tail(stmts))
         ELSE Shows(Tail(stmts))

Ran(stmts, f, what) == \E i \in 1..Len(Completed(stmts, f)) : stmts[i] = what

InSeq(x, s) == \E i \in 1..Len(s) : s[i] = x

(***************************************************************************)
(* The except handlers of app.py: what each one emits, and where the       *)
(* script goes next.                                                       *)
(***************************************************************************)

\* HandlerEmits with the metrics handler made silent
HandlerEmits_SilentMetrics(h) ==
    CASE h = "import"           -> <<"error:import", "exception:import">>
      [] h = "load_model"       -> <<"error:load_model">>
      [] h = "prediction"       -> <<"error:prediction", "exception:prediction">>
      [] h = "safety"           -> <<"warning:safety", "exception:safety">>
      [] h = "fuel_chart"       -> <<"warning:fuel_chart", "exception:fuel_chart">>
      [] h = "speed_chart"      -> <<"warning:speed_chart", "exception:speed_chart">>
      [] OTHER                  -> <<>>

\* app.py:20-26, 43-45, 116-119, 130-132, 151-153, 185-187, 208-210 emit;
\* app.py:103-105, 173-175, 197-198 only assign a fallback value.
HandlerEmits(h) ==
    CASE h = "import"           -> <<"error:import", "exception:import">>
      [] h = "load_model"       -> <<"error:load_model">>
      [] h = "prediction"       -> <<"error:prediction", "exception:prediction">>
      [] h = "classes"          -> <<>>
      [] h = "safety"           -> <<"warning:safety", "exception:safety">>
      [] h = "metrics"          -> <<"warning:metrics", "exception:metrics">>
      [] h = "fuel_vectorized"  -> <<>>
      [] h = "fuel_chart"       -> <<"warning:fuel_chart", "exception:fuel_chart">>
      [] h = "speed_vectorized" -> <<>>
      [] h = "speed_chart"      -> <<"warning:speed_chart", "exception:speed_chart">>

\* app.py:119: the prediction handler ends with st.stop()
AfterPredictionFailure_NoStop == "safety"
AfterPredictionFailure == "stopped"

\* app.py:130-132: the safety handler falls through to the metrics block
AfterSafetyFailure_Stop == "stopped"
AfterSafetyFailure == "metrics"

(***************************************************************************)
(* app.py, the blocks.                                                     *)
(***************************************************************************)

\* a joblib-loaded object: does it have predict_proba, does it have classes_
Models == [has_proba : BOOLEAN, has_classes : BOOLEAN]

\* train_model.py:14: the classifier is fitted on labels 0, 1, 2
Classes == {0, 1, 2}

\* app.py:78-87: the keys of the dict the DataFrame is built from, in order
InputColumns_Swapped ==
    <<"sea_temperature", "salinity", "idle_days", "avg_speed",
      "days_since_cleaning", "friction_coeff", "hull_roughness", "fuel_penalty">>
InputColumns ==
    <<"sea_temperature", "salinity", "idle_days", "avg_speed",
      "days_since_cleaning", "hull_roughness", "friction_coeff", "fuel_penalty">>

\* train_model.py:17-26: the columns the classifier is fitted on, in order
TrainColumns ==
    <<"sea_temperature", "salinity", "idle_days", "avg_speed",
      "days_since_cleaning", "hull_roughness", "friction_coeff", "fuel_penalty">>

\* app.py:50-58 and 90-91
PageShows == <<"title", "write:intro", "subheader:input_summary", "write:input_data">>

\* app.py:97-111: the branch taken when the model has predict_proba
\* (statement 3, the classes_ lookup, has its own inner try)
PredictProbaStmts ==
    << <<"call", "predict_proba">>, <<"call", "predict">>, <<"call", "classes">>,
       <<"call", "proba_display">>, <<"show", "subheader:prediction">>,
       <<"show", "write:pred_class">>, <<"show", "write:proba_label">>,
       <<"show", "write:proba_display">> >>

\* app.py:112-115: the branch taken otherwise
PredictOnlyStmts ==
    << <<"call", "predict">>, <<"show", "subheader:prediction">>,
       <<"show", "write:pred_class">> >>

PredictStmts(m) == IF m.has_proba THEN PredictProbaStmts ELSE PredictOnlyStmts

\* app.py:126-129
SafetyStmts ==
    << <<"call", "check_operational_safety">>, <<"call", "maintenance_action">>,
       <<"show", "write:safety_msg">>, <<"show", "write:maintenance_msg">> >>

\* app.py:140-150
MetricsStmts ==
    << <<"call", "resistance_increase">>, <<"call", "power_required">>,
       <<"call", "power_kw">>, <<"call", "speed_loss_due_to_fouling">>,
       <<"call", "fuel_consumption">>, <<"show", "metric:resistance">>,
       <<"show", "metric:power">>, <<"show", "metric:fouled_speed">>,
       <<"show", "metric:fuel">> >>

\* app.py:168-172 (inner try) and 175 (its fallback)
VectorizedStmts(f) == << <<"call", f>>, <<"call", "shape_check">>, <<"call", "astype">> >>
FallbackStmts(f) == << <<"call", f>> >>

\* app.py:177-184 and 200-207
ChartStmts(name) ==
    << <<"call", "DataFrame">>, <<"call", "alt.Chart">>, <<"show", "chart:" \o name>> >>

\* the fault indices an enclosing handler can see: the classes_ lookup
\* (app.py:101-105) sits in its own try and never reaches the outer handler
OuterFaults(stmts) ==
    {f \in Faults(stmts) : f = 0 \/ stmts[f] # <<"call", "classes">>}

\* what a block adds to the screen: the displays that completed, then the
\* handler's messages if a statement raised
BlockScreen(stmts, f, h) ==
    Shows(Completed(stmts, f)) \o (IF f # 0 THEN HandlerEmits(h) ELSE <<>>)

BlockCaught(f, h) == IF f # 0 THEN <<h>> ELSE <<>>

\* app.py:10-26
ImportHelpers ==
    /\ pc = "import"
    /\ IF ImportRaises(exports)
       THEN /\ screen' = screen \o HandlerEmits("import")
            /\ caught' = Append(caught, "import")
            /\ pc' = "stopped"
       ELSE /\ pc' = "load_model"
            /\ UNCHANGED <<screen, caught>>
    /\ UNCHANGED <<exports, cache, model, input_data, pred_class, physVars>>

\* app.py:31-45: load_model is cached by st.cache_resource; an uncached call
\* raises (missing or unreadable file) or returns the unpickled object
LoadModel ==
    /\ pc = "load_model"
    /\ \/ /\ cache # <<>>
          /\ model' = cache
          /\ pc' = "inputs"
          /\ UNCHANGED <<cache, screen, caught>>
       \/ /\ cache = <<>>
          /\ \E m \in Models :
                /\ cache' = <<m>>
                /\ model' = <<m>>
          /\ pc' = "inputs"
          /\ UNCHANGED <<screen, caught>>
       \/ /\ cache = <<>>
          /\ screen' = screen \o HandlerEmits("load_model")
          /\ caught' = Append(caught, "load_model")
          /\ pc' = "stopped"
          /\ UNCHANGED <<cache, model>>
    /\ UNCHANGED <<exports, input_data, pred_class, physVars>>

\* app.py:50-91: page header, sidebar widgets, input_data, input summary
RenderInputs ==
    /\ pc = "inputs"
    /\ input_data' = InputColumns
    /\ screen' = screen \o PageShows
    /\ pc' = "predict"
    /\ UNCHANGED <<exports, cache, model, pred_class, caught, physVars>>

\* app.py:96-119
Predict ==
    /\ pc = "predict"
    /\ LET stmts == PredictStmts(model[1]) IN
       \E f \in OuterFaults(stmts), c \in Classes :
          LET noClasses == /\ Ran(stmts, f, <<"call", "classes">>)
                           /\ ~model[1].has_classes
          IN /\ pred_class' = IF Ran(stmts, f, <<"call", "predict">>)
                              THEN <<c>> ELSE pred_class
             /\ screen' = screen \o BlockScreen(stmts, f, "prediction")
             /\ caught' = caught \o BlockCaught(IF noClasses THEN 1 ELSE 0, "classes")
                                 \o BlockCaught(f, "prediction")
             /\ pc' = IF f # 0 THEN AfterPredictionFailure ELSE "safety"
    /\ UNCHANGED <<exports, cache, model, input_data, physVars>>

\* app.py:124-132: maintenance_action(pred_class) raises NameError when
\* pred_class was never assigned
SafetyMaintenance ==
    /\ pc = "safety"
    /\ \E f \in Faults(SafetyStmts) :
          /\ pred_class = <<>> => f \in {1, 2}
          /\ screen' = screen \o <<"subheader:safety">>
                              \o BlockScreen(SafetyStmts, f, "safety")
          /\ caught' = caught \o BlockCaught(f, "safety")
          /\ pc' = IF f # 0 THEN AfterSafetyFailure ELSE "metrics"
    /\ UNCHANGED <<exports, cache, model, input_data, pred_class, physVars>>

\* app.py:137-153
PhysicsMetrics ==
    /\ pc = "metrics"
    /\ \E f \in Faults(MetricsStmts) :
          /\ screen' = screen \o <<"subheader:metrics">>
                              \o BlockScreen(MetricsStmts, f, "metrics")
          /\ caught' = caught \o BlockCaught(f, "metrics")
    /\ pc' = "fuel_chart"
    /\ UNCHANGED <<exports, cache, model, input_data, pred_class, physVars>>

\* app.py:165-187 and 190-210: the vectorized attempt in the inner try, the
\* scalar fallback in its handler, then the chart; v, b and c are the fault
\* indices of the three parts (b only when the inner handler runs, c only
\* when the fallback did not raise)
ChartBlock(name, inner, outer, v, b, c) ==
    LET fell == v # 0
        raised == (fell /\ b # 0) \/ c # 0
    IN /\ fell \/ b = 0
       /\ (fell /\ b # 0) => c = 0
       /\ screen' = screen \o <<"subheader:" \o name>>
                           \o (IF fell /\ b # 0 THEN <<>>
                               ELSE Shows(Completed(ChartStmts(name), c)))
                           \o (IF raised THEN HandlerEmits(outer) ELSE <<>>)
       /\ caught' = caught \o BlockCaught(v, inner)
                           \o BlockCaught(IF raised THEN 1 ELSE 0, outer)

\* app.py:158-187
FuelChart ==
    /\ pc = "fuel_chart"
    /\ \E v \in Faults(VectorizedStmts("fuel_curve")),
          b \in Faults(FallbackStmts("fuel_curve")),
          c \in Faults(ChartStmts("fuel")) :
          ChartBlock("fuel", "fuel_vectorized", "fuel_chart", v, b, c)
    /\ pc' = "speed_chart"
    /\ UNCHANGED <<exports, cache, model, input_data, pred_class, physVars>>

\* app.py:189-210
SpeedChart ==
    /\ pc = "speed_chart"
    /\ \E v \in Faults(VectorizedStmts("speed_loss_due_to_fouling")),
          b \in Faults(FallbackStmts("speed_loss_due_to_fouling")),
          c \in Faults(ChartStmts("speed")) :
          ChartBlock("speed", "speed_vectorized", "speed_chart", v, b, c)
    /\ pc' = "footer"
    /\ UNCHANGED <<exports, cache, model, input_data, pred_class, physVars>>

\* app.py:215-220
Footer ==
    /\ pc = "footer"
    /\ screen' = screen \o <<"write:rule", "caption">>
    /\ pc' = "done"
    /\ UNCHANGED <<exports, cache, model, input_data, pred_class, caught, physVars>>

\* Streamlit reruns the script from the top on the next interaction; only the
\* st.cache_resource entry survives
Rerun ==
    /\ pc \in {"done", "stopped"}
    /\ pc' = "import"
    /\ model' = <<>>
    /\ input_data' = <<>>
    /\ pred_class' = <<>>
    /\ screen' = <<>>
    /\ caught' = <<>>
    /\ UNCHANGED <<exports, cache, physVars>>

PhysIdle ==
    /\ call = "none"
    /\ args = <<>>
    /\ result = <<>>

Init ==
    /\ pc = "import"
    /\ exports \in Deployments
    /\ cache = <<>>
    /\ model = <<>>
    /\ input_data = <<>>
    /\ pred_class = <<>>
    /\ screen = <<>>
    /\ caught = <<>>
    /\ PhysIdle

Next ==
    \/ ImportHelpers
    \/ LoadModel
    \/ RenderInputs
    \/ Predict
    \/ SafetyMaintenance
    \/ PhysicsMetrics
    \/ FuelChart
    \/ SpeedChart
    \/ Footer
    \/ Rerun

Spec == Init /\ [][Next]_vars

(***************************************************************************)
(* propulsion_physics.py                                                   *)
(***************************************************************************)

\* propulsion_physics.py:5 with the roughness coefficient 10
resistance_increase_k10(roughness, vessel_speed) ==
    QMul(QAdd(QInt(1), QMul(roughness, QInt(10))), QMul(vessel_speed, vessel_speed))

\* propulsion_physics.py:2-5
resistance_increase(roughness, vessel_speed) ==
    QMul(QAdd(QInt(1), QMul(roughness, QInt(15))), QMul(vessel_speed, vessel_speed))

\* propulsion_physics.py:8-12
power_required(resistance, vessel_speed) ==
    LET speed_m_s == QMul(vessel_speed, QFrac(51444, 100000))
    IN QMul(resistance, speed_m_s)

\* propulsion_physics.py:15-19 with the cap 99 of another variant
speed_loss_due_to_fouling_cap99(roughness, vessel_speed) ==
    LET loss_percent == QMin(QMul(roughness, QInt(50)), QInt(99))
    IN QMul(vessel_speed, QSub(QInt(1), QDiv(loss_percent, QInt(100))))

\* propulsion_physics.py:15-19
speed_loss_due_to_fouling(roughness, vessel_speed) ==
    LET loss_percent == QMin(QMul(roughness, QInt(50)), QInt(90))
    IN QMul(vessel_speed, QSub(QInt(1), QDiv(loss_percent, QInt(100))))

\* propulsion_physics.py:22 and 31: the default arguments
sfc == 210
fuel_density == 850

\* propulsion_physics.py:22-28
fuel_consumption_lph(power_kw) ==
    LET fuel_kg_per_hr == QDiv(QMul(power_kw, QInt(sfc)), QInt(1000))
        fuel_lph == QMul(QDiv(fuel_kg_per_hr, QInt(fuel_density)), QInt(1000))
    IN fuel_lph

\* propulsion_physics.py:31-33
fuel_consumption_tph(power_kw) ==
    LET fuel_kg_per_hr == QDiv(QMul(power_kw, QInt(sfc)), QInt(1000))
    IN QDiv(fuel_kg_per_hr, QInt(1000))

\* propulsion_physics.py:36-39
fuel_curve(vessel_speed, roughness) ==
    LET res == resistance_increase(roughness, vessel_speed)
        power_kw == QDiv(power_required(res, vessel_speed), QInt(1000))
    IN fuel_consumption_lph(power_kw)

\* a call of the name f bound by `from propulsion_physics import f`
CallFuelFunction(f, power_kw) ==
    CASE f = "fuel_consumption_lph" -> fuel_consumption_lph(power_kw)
      [] f = "fuel_consumption_tph" -> fuel_consumption_tph(power_kw)

(***************************************************************************)
(* safety_rules.py and maintenance_schedule.py                             *)
(***************************************************************************)

RECURSIVE Join(_, _)
\* str.join on a list of strings
Join(sep, ws) ==
    IF ws = <<>> THEN ""
    ELSE IF Len(ws) = 1 THEN ws[1]
         ELSE ws[1] \o sep \o Join(sep, Tail(ws))

SpeedWarning == "WARNING: Speed too high for safety. Reduce speed."
RoughnessWarning == "WARNING: Hull roughness is too high. Immediate cleaning recommended."
CleaningWarning == "WARNING: Hull overdue for cleaning. Schedule maintenance."
SafeMessage == "SAFE: Operating within limits."

\* safety_rules.py:1-19 with >= in the roughness rule
check_operational_safety_geq(speed_kn, roughness, days_since_cleaning) ==
    LET w1 == IF QLess(QInt(22), speed_kn) THEN <<SpeedWarning>> ELSE <<>>
        w2 == IF QLeq(QFrac(15, 100), roughness)
              THEN Append(w1, RoughnessWarning) ELSE w1
        warnings == IF days_since_cleaning > 120
                    THEN Append(w2, CleaningWarning) ELSE w2
    IN IF Len(warnings) = 0 THEN SafeMessage ELSE Join(" ", warnings)

\* safety_rules.py:1-19
check_operational_safety(speed_kn, roughness, days_since_cleaning) ==
    LET w1 == IF QLess(QInt(22), speed_kn) THEN <<SpeedWarning>> ELSE <<>>
        w2 == IF QLess(QFrac(15, 100), roughness)
              THEN Append(w1, RoughnessWarning) ELSE w1
        warnings == IF days_since_cleaning > 120
                    THEN Append(w2, CleaningWarning) ELSE w2
    IN IF Len(warnings) = 0 THEN SafeMessage ELSE Join(" ", warnings)

\* maintenance_schedule.py:1-9 without the final else (the function then
\* returns None, shown here as the empty string)
maintenance_action_no_else(prediction) ==
    IF prediction = 0
    THEN "Maintenance Action: No immediate action needed. Continue monitoring."
    ELSE IF prediction = 1
    THEN "Maintenance Action: Plan hull cleaning soon. Reduce idle time."
    ELSE IF prediction = 2
    THEN "Maintenance Action: Immediate hull cleaning required! Check antifouling paint and inspect hull."
    ELSE ""

\* maintenance_schedule.py:1-9
maintenance_action(prediction) ==
    IF prediction = 0
    THEN "Maintenance Action: No immediate action needed. Continue monitoring."
    ELSE IF prediction = 1
    THEN "Maintenance Action: Plan hull cleaning soon. Reduce idle time."
    ELSE IF prediction = 2
    THEN "Maintenance Action: Immediate hull cleaning required! Check antifouling paint and inspect hull."
    ELSE "Maintenance Action: Unknown severity."

(***************************************************************************)
(* app.py: the fuel metric and the fuel sweep                              *)
(***************************************************************************)

\* app.py:140-146 and 150: the fuel metric, <<value>> when it is displayed
\* and <<>> when it is not (the name fuel_consumption must have been
\* imported from the module, app.py:16)
fuel_metric(roughness, speed, defined) ==
    LET res == resistance_increase(roughness, speed)
        power_w == power_required(res, speed)
        power_kw == QDiv(power_w, QInt(1000))
    IN IF "fuel_consumption" \in defined
       THEN <<CallFuelFunction("fuel_consumption", power_kw)>>
       ELSE <<>>

\* app.py:162: number of samples of the sweep
NumSamples == 50

\* numpy.linspace(start, stop, num): start + i * step, step = (stop - start)/(num - 1)
linspace(start, stop, num) ==
    LET step == QDiv(QSub(stop, start), QInt(num - 1))
    IN [i \in 1..num |-> QAdd(QMul(QInt(i - 1), step), start)]

\* app.py:160-162 with the end points of linspace exchanged
fouling_range_descending(roughness) ==
    LET min_r == QMax(QFrac(1, 1000), QMul(roughness, QFrac(2, 10)))
        max_r == QMax(QFrac(2, 10), QMul(roughness, QInt(3)))
        asc == linspace(min_r, max_r, NumSamples)
    IN [i \in 1..NumSamples |-> asc[NumSamples + 1 - i]]

\* app.py:160-162
fouling_range(roughness) ==
    LET min_r == QMax(QFrac(1, 1000), QMul(roughness, QFrac(2, 10)))
        max_r == QMax(QFrac(2, 10), QMul(roughness, QInt(3)))
    IN linspace(min_r, max_r, NumSamples)

\* app.py:168-175: fuel_curve over the samples (numpy broadcasts the
\* arithmetic element by element; the scalar fallback makes the same calls)
fuel_list(speed, range) == [i \in 1..Len(range) |-> fuel_curve(speed, range[i])]

(***************************************************************************)
(* SpecPhysics: the helpers applied to drawn inputs.  Roughness is drawn   *)
(* in thousandths of a millimetre (the slider step, app.py:70) and speed   *)
(* in half knots (the slider step, app.py:65).                             *)
(***************************************************************************)

MaxRoughness == 2000
RoughnessStride == 250
MaxSpeed == 50
SpeedStride == 16
MaxDays == 122
MaxPrediction == 4

Millimetres(k) == QFrac(k, 1000)
Knots(h) == QFrac(h, 2)

RoughnessValues ==
    {k \in 0..MaxRoughness : k % RoughnessStride = 0}
        \cup {1, 50, 149, 150, 151, 200, 1799, 1800, 1801}
SpeedValues ==
    {h \in 1..MaxSpeed : h % SpeedStride = 0} \cup {1, 10, 24, 44, 45, 50}
DaysValues == {0, 60} \cup 119..MaxDays
PredictionValues == (0 - 1)..MaxPrediction

\* app.py:65 and 70: what the sliders admit
SliderSpeeds == {h \in SpeedValues : 10 <= h /\ h <= 50}
SliderRoughness == {k \in RoughnessValues \cup {4, 5, 6, 66, 67} : 1 <= k /\ k <= 1000}

CallSpeedLoss ==
    /\ call = "none"
    /\ \E k \in RoughnessValues, h \in SpeedValues :
          /\ args' = [roughness |-> k, speed |-> h]
          /\ result' = speed_loss_due_to_fouling(Millimetres(k), Knots(h))
    /\ call' = "speed_loss_due_to_fouling"
    /\ UNCHANGED appVars

CallResistance ==
    /\ call = "none"
    /\ \E k \in RoughnessValues, h \in SpeedValues :
          /\ args' = [roughness |-> k, speed |-> h]
          /\ result' = resistance_increase(Millimetres(k), Knots(h))
    /\ call' = "resistance_increase"
    /\ UNCHANGED appVars

CallFuelCurve ==
    /\ call = "none"
    /\ \E k \in RoughnessValues, h \in SpeedValues :
          /\ args' = [roughness |-> k, speed |-> h]
          /\ result' = fuel_curve(Knots(h), Millimetres(k))
    /\ call' = "fuel_curve"
    /\ UNCHANGED appVars

CallSafety ==
    /\ call = "none"
    /\ \E k \in RoughnessValues, h \in SpeedValues, d \in DaysValues :
          /\ args' = [roughness |-> k, speed |-> h, days |-> d]
          /\ result' = check_operational_safety(Knots(h), Millimetres(k), d)
    /\ call' = "check_operational_safety"
    /\ UNCHANGED appVars

CallMaintenance ==
    /\ call = "none"
    /\ \E p \in PredictionValues :
          /\ args' = [prediction |-> p]
          /\ result' = maintenance_action(p)
    /\ call' = "maintenance_action"
    /\ UNCHANGED appVars

\* app.py:140-150 against the repository's propulsion_physics module
ShowFuelMetric ==
    /\ call = "none"
    /\ \E k \in SliderRoughness, h \in SliderSpeeds :
          /\ args' = [roughness |-> k, speed |-> h]
          /\ result' = fuel_metric(Millimetres(k), Knots(h), PhysicsDefs)
    /\ call' = "fuel_metric"
    /\ UNCHANGED appVars

\* app.py:160-175
BuildFuelSweep ==
    /\ call = "none"
    /\ \E k \in SliderRoughness, h \in SliderSpeeds :
          LET range == fouling_range(Millimetres(k))
          IN /\ args' = [roughness |-> k, speed |-> h]
             /\ result' = [fouling_range |-> range,
                           fuel_list |-> fuel_list(Knots(h), range)]
    /\ call' = "fuel_sweep"
    /\ UNCHANGED appVars

\* the value is consumed; the next evaluation draws fresh inputs
Return ==
    /\ call # "none"
    /\ call' = "none"
    /\ args' = <<>>
    /\ result' = <<>>
    /\ UNCHANGED appVars

InitPhysics ==
    /\ PhysIdle
    /\ pc = "import"
    /\ exports = PhysicsDefs
    /\ cache = <<>>
    /\ model = <<>>
    /\ input_data = <<>>
    /\ pred_class = <<>>
    /\ screen = <<>>
    /\ caught = <<>>

NextPhysics ==
    \/ CallSpeedLoss
    \/ CallResistance
    \/ CallFuelCurve
    \/ CallSafety
    \/ CallMaintenance
    \/ ShowFuelMetric
    \/ BuildFuelSweep
    \/ Return

SpecPhysics == InitPhysics /\ [][NextPhysics]_vars

(***************************************************************************)
(* Properties of the script run (Spec).                                    *)
(***************************************************************************)

SeqSet(s) == {s[i] : i \in 1..Len(s)}

\* the blocks that come after the prediction block
LaterSteps == {"safety", "metrics", "fuel_chart", "speed_chart"}

\* what a later block displays when nothing in it raises
StepOutputs(s) ==
    CASE s = "safety"      -> SeqSet(Shows(SafetyStmts))
      [] s = "metrics"     -> SeqSet(Shows(MetricsStmts))
      [] s = "fuel_chart"  -> SeqSet(Shows(ChartStmts("fuel")))
      [] s = "speed_chart" -> SeqSet(Shows(ChartStmts("speed")))

StepFailed(s) == InSeq(s, caught)
Produced(s) == StepOutputs(s) \subseteq SeqSet(screen)
ProducedNothing(s) == StepOutputs(s) \cap SeqSet(screen) = {}
Announced(h) == HandlerEmits(h) # <<>> /\ SeqSet(HandlerEmits(h)) \subseteq SeqSet(screen)

RequestOver == pc \in {"done", "stopped"}
ReachedPrediction == input_data # <<>> /\ pc # "predict"

\* C2 as claimed: when exactly one of the five steps fails in a request, a
\* message is shown for it and every other step that does not consume its
\* result (only the safety/maintenance step consumes the prediction) still
\* produces its output in that request.
C2_EveryStepIndependent ==
    (RequestOver /\ ReachedPrediction) =>
        \A s \in LaterSteps \cup {"prediction"} :
            (\A t \in LaterSteps \cup {"prediction"} : StepFailed(t) <=> t = s) =>
                /\ Announced(s)
                /\ \A t \in LaterSteps \ {s} :
                      ~(s = "prediction" /\ t = "safety") => Produced(t)

\* C2 amended: the four steps after classification are independently guarded:
\* in a request whose classification succeeded, each of them that fails shows
\* its warning and each of them that does not fail produces its output,
\* whatever the others do; a request whose classification failed shows the
\* prediction error and produces none of the four outputs.
C2_LaterStepsIndependent ==
    (RequestOver /\ ReachedPrediction) =>
        IF StepFailed("prediction")
        THEN Announced("prediction") /\ \A t \in LaterSteps : ProducedNothing(t)
        ELSE /\ pc = "done"
             /\ \A s \in LaterSteps :
                   IF StepFailed(s) THEN Announced(s) ELSE Produced(s)

\* C2 witness: a finished request in which only the safety step failed and
\* the metrics and both charts were produced.
C2_Witness ==
    /\ pc = "done"
    /\ StepFailed("safety") /\ Announced("safety")
    /\ \A t \in LaterSteps \ {"safety"} : ~StepFailed(t) /\ Produced(t)

\* C3: when the classifier call raises, the prediction error is shown, the
\* script stops, nothing of the later steps is displayed, and the
\* safety/maintenance block is never entered with pred_class unassigned.
C3_PredictionFailureStops ==
    /\ StepFailed("prediction") =>
          /\ pc = "stopped"
          /\ Announced("prediction")
          /\ \A t \in LaterSteps :
                /\ ProducedNothing(t)
                /\ ~StepFailed(t)
                /\ ("subheader:" \o t) \notin SeqSet(screen)
    /\ pc = "safety" => pred_class # <<>>

\* C3 witness: a request stopped by the prediction handler before pred_class
\* was assigned.
C3_Witness ==
    /\ pc = "stopped"
    /\ StepFailed("prediction")
    /\ pred_class = <<>>
    /\ screen[Len(screen)] = "exception:prediction"

\* C4: once assembled, the inference feature vector has exactly eight
\* columns, named and ordered as the columns the classifier was fitted on.
C4_FeatureSchemaMatches ==
    input_data # <<>> =>
        /\ Len(input_data) = 8
        /\ Len(TrainColumns) = 8
        /\ \A i \in 1..8 : input_data[i] = TrainColumns[i]

\* C4 witness: the script is about to call the classifier on the assembled
\* feature vector.
C4_Witness == pc = "predict" /\ Len(input_data) = 8 /\ model # <<>>

\* the handlers that replace a failed attempt by a fallback value
\* (app.py:103-105, 173-175, 197-198)
FallbackHandlers == {"classes", "fuel_vectorized", "speed_vectorized"}

\* C5 as claimed: every except handler entered in a request has emitted a
\* visible message.
C5_NothingSwallowed == \A i \in 1..Len(caught) : Announced(caught[i])

\* C5 amended: every except handler that ends a block (import, model load,
\* prediction, safety/maintenance, metrics, fuel chart, speed chart) has
\* emitted a visible message; the three fallback handlers emit none.
C5_BlockHandlersAnnounce ==
    \A i \in 1..Len(caught) :
        IF caught[i] \in FallbackHandlers
        THEN HandlerEmits(caught[i]) = <<>>
        ELSE Announced(caught[i])

\* C5 witness: a finished request in which a fallback handler and a block
\* handler were both entered.
C5_Witness ==
    /\ pc = "done"
    /\ StepFailed("fuel_vectorized")
    /\ StepFailed("metrics")
    /\ "warning:metrics" \in SeqSet(screen)

(***************************************************************************)
(* Properties of the helpers (SpecPhysics).                                *)
(***************************************************************************)

\* C1: for roughness >= 0 and speed > 0 the fouled speed lies in
\* [speed*(1 - 90/100), speed], is positive, does not increase when the
\* roughness grows, and equals speed*0.10 once roughness*50 >= 90.
C1_SpeedLossBounded ==
    call = "speed_loss_due_to_fouling" =>
        LET r == Millimetres(args.roughness)
            v == Knots(args.speed)
        IN /\ QLeq(QMul(v, QSub(QInt(1), QFrac(90, 100))), result)
           /\ QLeq(result, v)
           /\ QLess(QInt(0), result)
           /\ \A k2 \in RoughnessValues :
                 k2 >= args.roughness =>
                     QLeq(speed_loss_due_to_fouling(Millimetres(k2), v), result)
           /\ QLeq(QInt(90), QMul(r, QInt(50))) => QEq(result, QMul(v, QFrac(10, 100)))

\* C1 witness: Scenario C, roughness 2.0 at 12 kn gives 1.2 kn.
C1_Witness ==
    /\ call = "speed_loss_due_to_fouling"
    /\ args = [roughness |-> 2000, speed |-> 24]
    /\ QEq(result, QFrac(12, 10))

\* C6 as claimed: the fuel metric of app.py is displayed, is computed by a
\* function that propulsion_physics defines, and equals fuel_curve at the
\* same speed and roughness.
C6_OneFuelChain ==
    call = "fuel_metric" =>
        /\ ImportedNames \subseteq PhysicsDefs
        /\ result # <<>>
        /\ QEq(result[1], fuel_curve(Knots(args.speed), Millimetres(args.roughness)))

\* C7 as claimed: resistance_increase(0.05, 12) returns 216 (coefficient 10).
C7_ScenarioA_216 ==
    (call = "resistance_increase" /\ args = [roughness |-> 50, speed |-> 24]) =>
        QEq(result, QInt(216))

\* C7 amended: resistance_increase(0.05, 12) returns 252, that is
\* (1 + 15*0.05) * 12^2: the coefficient of the roughness is 15.
C7_ScenarioA_252 ==
    (call = "resistance_increase" /\ args = [roughness |-> 50, speed |-> 24]) =>
        /\ QEq(result, QInt(252))
        /\ QEq(result, QMul(QFrac(175, 100), QInt(144)))

\* C7 witness: the helper has been applied to roughness 0.05 and 12 kn and
\* returned 252.
C7_Witness ==
    /\ call = "resistance_increase"
    /\ args = [roughness |-> 50, speed |-> 24]
    /\ QEq(result, QInt(252))

\* C8: at a fixed speed fuel_curve does not decrease when the roughness
\* grows; the sweep of app.py has 50 evenly spaced, increasing samples from
\* max(0.001, roughness*0.2) to max(0.2, roughness*3.0) and its fuel values
\* are non-decreasing.
C8_FuelNonDecreasing ==
    /\ call = "fuel_curve" =>
          \A k2 \in RoughnessValues :
              k2 >= args.roughness =>
                  QLeq(result, fuel_curve(Knots(args.speed), Millimetres(k2)))
    /\ call = "fuel_sweep" =>
          LET xs == result.fouling_range
              ys == result.fuel_list
              r == Millimetres(args.roughness)
          IN /\ Len(xs) = 50 /\ Len(ys) = 50
             /\ QEq(xs[1], QMax(QFrac(1, 1000), QMul(r, QFrac(2, 10))))
             /\ QEq(xs[50], QMax(QFrac(2, 10), QMul(r, QInt(3))))
             /\ \A i \in 1..49 :
                   /\ QLess(xs[i], xs[i + 1])
                   /\ QEq(QSub(xs[i + 1], xs[i]), QSub(xs[2], xs[1]))
                   /\ QLeq(ys[i], ys[i + 1])

\* C8 witness: the sweep built for the default inputs (roughness 0.05,
\* 12 kn) runs from 0.01 to 0.2 and its fuel values rise.
C8_Witness ==
    /\ call = "fuel_sweep"
    /\ args = [roughness |-> 50, speed |-> 24]
    /\ QEq(result.fouling_range[1], QFrac(1, 100))
    /\ QEq(result.fouling_range[50], QFrac(2, 10))
    /\ QLess(result.fuel_list[1], result.fuel_list[50])

\* C9: the result is the warnings of exactly the rules that trigger
\* (speed > 22, roughness > 0.15, days > 120, strictly), in that order,
\* joined by single spaces, and the SAFE sentence iff no rule triggers.
C9_SafetyRules ==
    call = "check_operational_safety" =>
        LET s == args.speed > 2 * 22
            r == args.roughness > 150
            d == args.days > 120
            expected == Join(" ", (IF s THEN <<SpeedWarning>> ELSE <<>>)
                                  \o (IF r THEN <<RoughnessWarning>> ELSE <<>>)
                                  \o (IF d THEN <<CleaningWarning>> ELSE <<>>))
        IN /\ (s \/ r \/ d) => result = expected
           /\ (result = SafeMessage) <=> ~(s \/ r \/ d)

\* C9 witness: all three rules trigger (22.5 kn, 0.151 mm, 121 days).
C9_Witness ==
    /\ call = "check_operational_safety"
    /\ args = [roughness |-> 151, speed |-> 45, days |-> 121]
    /\ result = "WARNING: Speed too high for safety. Reduce speed. WARNING: Hull roughness is too high. Immediate cleaning recommended. WARNING: Hull overdue for cleaning. Schedule maintenance."

\* C10: maintenance_action returns a non-empty string for every prediction,
\* three different recommendations for 0, 1 and 2 and the fallback sentence
\* for anything else; check_operational_safety returns a non-empty string.
C10_LookupsTotal ==
    /\ call = "maintenance_action" =>
          /\ result # ""
          /\ args.prediction \in {0, 1, 2} =>
                /\ result # "Maintenance Action: Unknown severity."
                /\ \A q \in {0, 1, 2} \ {args.prediction} :
                      result # maintenance_action(q)
          /\ args.prediction \notin {0, 1, 2} =>
                result = "Maintenance Action: Unknown severity."
    /\ call = "check_operational_safety" => result # ""

\* C10 witness: a prediction outside {0, 1, 2} got the fallback sentence.
C10_Witness ==
    /\ call = "maintenance_action"
    /\ args.prediction = 3
    /\ result = "Maintenance Action: Unknown severity."

====
